---- MODULE Spec2Model ----
(***************************************************************************)
(* Model of the deployment dashboard (src/src/main.rs): startup (error     *)
(* hooks, terminal, credential, the two parallel changelog fetches), the   *)
(* construction of App, and the draw / read / dispatch loop of run().      *)
(***************************************************************************)
EXTENDS Integers, Sequences, FiniteSets, TLC

VARIABLES
    pc,             \* position of main(): install, init, token, fetch, draw, read, restore, exit
    terminal,       \* "original" or "raw" (raw mode + alternate screen)
    env_token,      \* whether GITLAB_TOKEN is set in the environment
    jobs,           \* per requested project: idle, running, ok, panicked
    fetched,        \* per requested project: the Changelog returned by get_changelog_info
    app,            \* NoApp before App::new, afterwards the App value
    screen,         \* Blank, or the view produced by the last render call
    event,          \* the value last returned by event::read() ("none" before the first)
    prevApp,        \* the App value at the moment the last event was read
    prevEvent,      \* the value event::read() returned before the last one
    result,         \* "none", or how main ended: Ok, Err, Panic
    recording,      \* whether trace is kept in this run
    trace,          \* the events read so far, in order (when recording)
    finished,       \* the order in which the fetch closures ended (when not recording)
    panic_message   \* "none", or the message of the last panic

vars == <<pc, terminal, env_token, jobs, fetched, app, screen, event, prevApp,
          prevEvent, result, recording, trace, finished, panic_message>>

\* Longest recorded event sequence.
MaxTrace == 5

\* Placeholders for values that do not exist yet.
NoApp == [none |-> TRUE]
Blank == [view |-> "blank"]
NoChangelog == [project |-> "none"]

\* The project ids main() requests, in request order.
ProjectIds == <<"251", "65">>

\* What matching on event::read() can distinguish in run().
Events == {"q", "c", "Backspace", "Left", "Right", "Enter", "Space",
           "Up", "Down", "Tab", "OtherKey", "NonKey"}

\* Ways one invocation of the helper process can end.
HelperOutcomes == {"ok", "spawn_error", "nonzero_exit", "bad_json"}

\* The Changelog parsed from the helper output for a project.
Changelog(project_id) == [project |-> project_id]

\* The message get_changelog_info panics with.
PanicMessage(outcome) ==
    CASE outcome = "spawn_error"  -> "Failed to get change logs"
      [] outcome = "nonzero_exit" -> "stderr of the helper"
      [] outcome = "bad_json"     -> "JSON was not well-formatted"

\* get_changelog_info: the Changelog on success, a panic otherwise.
get_changelog_info(project_id, outcome) ==
    IF outcome = "ok" THEN Changelog(project_id)
    ELSE [panic |-> PanicMessage(outcome)]

DeploymentOption(v, l) == [value |-> v, label |-> l]

\* Variant of DeploymentNew: the release mail is on by default.
DeploymentNewMailOn ==
    [selected_options |-> << DeploymentOption(TRUE, "Send Release Mail"),
                             DeploymentOption(TRUE, "Sylius Deployment"),
                             DeploymentOption(TRUE, "Sulu Deployment") >>,
     current_option |-> 0,
     deployment_running |-> FALSE]

\* Deployment::new
DeploymentNew ==
    [selected_options |-> << DeploymentOption(FALSE, "Send Release Mail"),
                             DeploymentOption(TRUE, "Sylius Deployment"),
                             DeploymentOption(TRUE, "Sulu Deployment") >>,
     current_option |-> 0,
     deployment_running |-> FALSE]

\* App::new
AppNew(changelog) ==
    [selected |-> "Left",
     ready_for_deployment |-> FALSE,
     deployment |-> DeploymentNew,
     changelog |-> changelog]

\* Vec indexing is 0-based; sequences here are 1-based.
InRange(i, s) == i >= 0 /\ i < Len(s)
At(s, i) == s[i + 1]

\* App::get_current_commit_status
get_current_commit_status(a) ==
    IF a.selected = "Left" THEN At(a.changelog, 0) ELSE At(a.changelog, 1)

\* ---- key handling of run(), per match arm ----

\* Variant of KeyConfirm: confirming also resets the panel selection.
KeyConfirmReset(a) == [a EXCEPT !.ready_for_deployment = TRUE, !.selected = "Left"]

KeyConfirm(a) == [a EXCEPT !.ready_for_deployment = TRUE]

KeyBackspace(a) == [a EXCEPT !.ready_for_deployment = FALSE]

KeyLeft(a) ==
    IF a.selected = "Right" THEN [a EXCEPT !.selected = "Left"] ELSE a

\* Variant of KeyRight: Right cycles between the panels.
KeyRightCycle(a) ==
    IF a.selected = "Left" THEN [a EXCEPT !.selected = "Right"]
    ELSE [a EXCEPT !.selected = "Left"]

KeyRight(a) ==
    IF a.selected = "Left" THEN [a EXCEPT !.selected = "Right"] ELSE a

\* Variant of KeyEnter: Enter flips the flag instead of setting it.
KeyEnterFlip(a) ==
    [a EXCEPT !.deployment.deployment_running = ~a.deployment.deployment_running]

KeyEnter(a) == [a EXCEPT !.deployment.deployment_running = TRUE]

\* Variant of KeyUp: wraps to the length instead of the last index.
KeyUpWrapToLen(a) ==
    [a EXCEPT !.deployment.current_option =
        IF a.deployment.current_option = 0
        THEN Len(a.deployment.selected_options)
        ELSE a.deployment.current_option - 1]

KeyUp(a) ==
    LET options_count == Len(a.deployment.selected_options)
    IN [a EXCEPT !.deployment.current_option =
            (a.deployment.current_option + options_count - 1) % options_count]

\* Variant of KeyDown: the remainder is taken by the length plus one.
KeyDownOffByOne(a) ==
    [a EXCEPT !.deployment.current_option =
        (a.deployment.current_option + 1) % (Len(a.deployment.selected_options) + 1)]

\* Variant of KeyDown: stops at the last option instead of wrapping.
KeyDownSaturating(a) ==
    [a EXCEPT !.deployment.current_option =
        IF a.deployment.current_option + 1 < Len(a.deployment.selected_options)
        THEN a.deployment.current_option + 1
        ELSE a.deployment.current_option]

KeyDown(a) ==
    [a EXCEPT !.deployment.current_option =
        (a.deployment.current_option + 1) % Len(a.deployment.selected_options)]

\* Variant of KeyTab: after flipping the option the cursor moves on.
KeyTabAdvance(a) ==
    [a EXCEPT !.deployment.selected_options[a.deployment.current_option + 1].value =
                  ~a.deployment.selected_options[a.deployment.current_option + 1].value,
              !.deployment.current_option =
                  (a.deployment.current_option + 1) % Len(a.deployment.selected_options)]

\* Variant of KeyTab: Tab switches the option on instead of flipping it.
KeyTabSet(a) ==
    [a EXCEPT !.deployment.selected_options[a.deployment.current_option + 1].value = TRUE]

KeyTab(a) ==
    [a EXCEPT !.deployment.selected_options[a.deployment.current_option + 1].value =
        ~a.deployment.selected_options[a.deployment.current_option + 1].value]

\* Variant of ReviewKey: the checklist keys are not fenced off by the phase.
ReviewKeyFallThrough(a, e) ==
    CASE e = "c"         -> KeyConfirm(a)
      [] e = "Backspace" -> KeyBackspace(a)
      [] e = "Left"      -> KeyLeft(a)
      [] e = "Right"     -> KeyRight(a)
      [] e = "Enter"     -> KeyEnter(a)
      [] e = "Up"        -> KeyUp(a)
      [] e = "Down"      -> KeyDown(a)
      [] e = "Tab"       -> KeyTab(a)
      [] OTHER           -> a

\* The match arms while ready_for_deployment is false.
ReviewKey(a, e) ==
    CASE e = "c"         -> KeyConfirm(a)
      [] e = "Backspace" -> KeyBackspace(a)
      [] e = "Left"      -> KeyLeft(a)
      [] e = "Right"     -> KeyRight(a)
      [] OTHER           -> a

\* Variant of DeployKey: the space bar toggles the option at the cursor.
DeployKeySpaceToggles(a, e) ==
    CASE e = "Enter" -> KeyEnter(a)
      [] e = "Space" -> KeyTab(a)
      [] e = "Up"    -> KeyUp(a)
      [] e = "Down"  -> KeyDown(a)
      [] e = "Tab"   -> KeyTab(a)
      [] OTHER       -> a

\* Variant of DeployKey: the checklist is frozen once the deployment runs.
DeployKeyFrozen(a, e) ==
    CASE e = "Enter" -> KeyEnter(a)
      [] e = "Space" -> a
      [] e = "Up" /\ ~a.deployment.deployment_running   -> KeyUp(a)
      [] e = "Down" /\ ~a.deployment.deployment_running -> KeyDown(a)
      [] e = "Tab" /\ ~a.deployment.deployment_running  -> KeyTab(a)
      [] OTHER       -> a

\* Variant of DeployKey: Backspace leaves the deployment view.
DeployKeyBack(a, e) ==
    CASE e = "Enter"     -> KeyEnter(a)
      [] e = "Space"     -> a
      [] e = "Up"        -> KeyUp(a)
      [] e = "Down"      -> KeyDown(a)
      [] e = "Tab"       -> KeyTab(a)
      [] e = "Backspace" -> KeyBackspace(a)
      [] OTHER           -> a

\* The match arms while ready_for_deployment is true.
DeployKey(a, e) ==
    CASE e = "Enter" -> KeyEnter(a)
      [] e = "Space" -> a
      [] e = "Up"    -> KeyUp(a)
      [] e = "Down"  -> KeyDown(a)
      [] e = "Tab"   -> KeyTab(a)
      [] OTHER       -> a

\* Variant of Dispatch: the arrow keys are matched before the phase test.
DispatchArrowsFirst(a, e) ==
    IF e = "NonKey" THEN a
    ELSE IF e = "Left" THEN KeyLeft(a)
    ELSE IF e = "Right" THEN KeyRight(a)
    ELSE IF ~a.ready_for_deployment THEN ReviewKey(a, e)
    ELSE DeployKey(a, e)

\* The body of the loop after event::read(), for an event other than 'q'.
Dispatch(a, e) ==
    IF e = "NonKey" THEN a
    ELSE IF ~a.ready_for_deployment THEN ReviewKey(a, e)
    ELSE DeployKey(a, e)

\* The dispatch aborts: remainder by zero or index out of bounds.
DispatchPanics(a, e) ==
    /\ e # "NonKey"
    /\ a.ready_for_deployment
    /\ \/ e \in {"Up", "Down"} /\ Len(a.deployment.selected_options) = 0
       \/ e = "Tab" /\ ~InRange(a.deployment.current_option, a.deployment.selected_options)

\* ---- rendering ----

OptionLine(o) == [checked |-> o.value, label |-> o.label]

render_deployment_view(a) ==
    [view |-> "deployment",
     items |-> [i \in 1..Len(a.deployment.selected_options) |->
                    OptionLine(a.deployment.selected_options[i])],
     highlighted |-> a.deployment.current_option,
     banner |-> IF a.deployment.deployment_running
                THEN "Deployment running" ELSE "Start deployment",
     mail_skipped |-> ~At(a.deployment.selected_options, 0).value]

render_commit_overview(a) ==
    [view |-> "overview",
     left |-> [changelog |-> At(a.changelog, 0), selected |-> a.selected = "Left"],
     right |-> [changelog |-> At(a.changelog, 1), selected |-> a.selected = "Right"],
     commit |-> get_current_commit_status(a)]

render(a) ==
    IF a.ready_for_deployment THEN render_deployment_view(a)
    ELSE render_commit_overview(a)

\* render indexes out of bounds.
RenderPanics(a) ==
    IF a.ready_for_deployment
    THEN ~InRange(0, a.deployment.selected_options)
    ELSE ~InRange(1, a.changelog)

\* ---- startup ----

InitBase ==
    /\ pc = "install"
    /\ terminal = "original"
    /\ env_token \in BOOLEAN
    /\ jobs = [i \in 1..Len(ProjectIds) |-> "idle"]
    /\ fetched = [i \in 1..Len(ProjectIds) |-> NoChangelog]
    /\ app = NoApp
    /\ screen = Blank
    /\ event = "none"
    /\ prevApp = NoApp
    /\ prevEvent = "none"
    /\ result = "none"
    /\ trace = <<>>
    /\ finished = <<>>
    /\ panic_message = "none"

Init == InitBase /\ recording = FALSE

InitTrace == InitBase /\ recording = TRUE

\* A panic: the hook installed by ratatui::init restores the terminal.
PanicEffect ==
    /\ terminal' = "original"
    /\ result' = "Panic"
    /\ pc' = "exit"

\* color_eyre::install()?
Install ==
    /\ pc = "install"
    /\ \/ pc' = "init" /\ result' = result
       \/ pc' = "exit" /\ result' = "Err"
    /\ UNCHANGED <<terminal, env_token, jobs, fetched, app, screen, event,
                   prevApp, prevEvent, recording, trace, finished, panic_message>>

\* ratatui::init()
TerminalInit ==
    /\ pc = "init"
    /\ \/ terminal' = "raw" /\ pc' = "token" /\ result' = result
          /\ panic_message' = panic_message
       \/ PanicEffect /\ panic_message' = "failed to initialize terminal"
    /\ UNCHANGED <<env_token, jobs, fetched, app, screen, event, prevApp,
                   prevEvent, recording, trace, finished>>

\* Variant of ReadToken: a missing variable is read as an empty token.
ReadTokenOrEmpty ==
    /\ pc = "token"
    /\ pc' = "fetch"
    /\ UNCHANGED <<terminal, result, panic_message>>
    /\ UNCHANGED <<env_token, jobs, fetched, app, screen, event, prevApp,
                   prevEvent, recording, trace, finished>>

\* std::env::var("GITLAB_TOKEN").expect(..)
ReadToken ==
    /\ pc = "token"
    /\ IF env_token
       THEN pc' = "fetch" /\ UNCHANGED <<terminal, result, panic_message>>
       ELSE PanicEffect /\ panic_message' = "GITLAB_TOKEN not set"
    /\ UNCHANGED <<env_token, jobs, fetched, app, screen, event, prevApp,
                   prevEvent, recording, trace, finished>>

\* A worker picks up the closure for the i-th project id.
StartFetch(i) ==
    /\ pc = "fetch"
    /\ jobs[i] = "idle"
    /\ jobs' = [jobs EXCEPT ![i] = "running"]
    /\ UNCHANGED <<pc, terminal, env_token, fetched, app, screen, event,
                   prevApp, prevEvent, result, recording, trace, finished,
                   panic_message>>

\* get_changelog_info for the i-th project id returns or panics.
FinishFetch(i, outcome) ==
    /\ pc = "fetch"
    /\ jobs[i] = "running"
    /\ LET r == get_changelog_info(ProjectIds[i], outcome)
       IN IF "panic" \in DOMAIN r
          THEN /\ jobs' = [jobs EXCEPT ![i] = "panicked"]
               /\ terminal' = "original"
               /\ fetched' = fetched
               /\ panic_message' = r.panic
          ELSE /\ jobs' = [jobs EXCEPT ![i] = "ok"]
               /\ terminal' = terminal
               /\ fetched' = [fetched EXCEPT ![i] = r]
               /\ panic_message' = panic_message
    /\ finished' = IF recording THEN finished ELSE Append(finished, i)
    /\ UNCHANGED <<pc, env_token, app, screen, event, prevApp, prevEvent, result,
                   recording, trace>>

\* Variant of Collected: the Changelogs in the order the closures ended.
CollectedByCompletion == [k \in 1..Len(finished) |-> fetched[finished[k]]]

\* The Vec collect() builds: the returned Changelogs in request order.
Collected == SelectSeq(fetched, LAMBDA c : c # NoChangelog)

\* Variant of Collect: a failed fetch is dropped instead of aborting.
CollectSkippingFailures ==
    /\ pc = "fetch"
    /\ \A i \in DOMAIN jobs : jobs[i] \in {"ok", "panicked"}
    /\ app' = AppNew(Collected)
    /\ pc' = "draw"
    /\ UNCHANGED <<terminal, env_token, jobs, fetched, screen, event, prevApp,
                   prevEvent, result, recording, trace, finished, panic_message>>

\* collect() of the indexed parallel iterator, then App::new.
Collect ==
    /\ pc = "fetch"
    /\ \A i \in DOMAIN jobs : jobs[i] = "ok"
    /\ app' = AppNew(Collected)
    /\ pc' = "draw"
    /\ UNCHANGED <<terminal, env_token, jobs, fetched, screen, event, prevApp,
                   prevEvent, result, recording, trace, finished, panic_message>>

\* A panic of a closure is resumed in main once no closure is running.
JoinPanic ==
    /\ pc = "fetch"
    /\ \E i \in DOMAIN jobs : jobs[i] = "panicked"
    /\ \A i \in DOMAIN jobs : jobs[i] # "running"
    /\ PanicEffect
    /\ UNCHANGED <<env_token, jobs, fetched, app, screen, event, prevApp,
                   prevEvent, recording, trace, finished, panic_message>>

\* ---- run() ----

\* terminal.draw(|f| render(f, app))?
Draw ==
    /\ pc = "draw"
    /\ IF RenderPanics(app)
       THEN PanicEffect /\ screen' = screen
            /\ panic_message' = "index out of bounds"
       ELSE \/ screen' = render(app) /\ pc' = "read"
               /\ UNCHANGED <<terminal, result, panic_message>>
            \/ screen' \in {screen, render(app)} /\ pc' = "restore"
               /\ result' = "Err" /\ terminal' = terminal
               /\ panic_message' = panic_message
    /\ UNCHANGED <<env_token, jobs, fetched, app, event, prevApp, prevEvent,
                   recording, trace, finished>>

\* Variant of ReadEvent: the loop reads the next event without redrawing.
ReadEventNoRedraw(e) ==
    /\ pc = "read"
    /\ recording => Len(trace) < MaxTrace
    /\ event' = e
    /\ prevApp' = app
    /\ prevEvent' = event
    /\ trace' = IF recording THEN Append(trace, e) ELSE trace
    /\ IF e = "q"
       THEN /\ result' = "Ok"
            /\ pc' = "restore"
            /\ UNCHANGED <<app, terminal, panic_message>>
       ELSE IF DispatchPanics(app, e)
       THEN PanicEffect /\ app' = app
            /\ panic_message' = "index out of bounds or remainder by zero"
       ELSE /\ app' = Dispatch(app, e)
            /\ pc' = "read"
            /\ UNCHANGED <<terminal, result, panic_message>>
    /\ UNCHANGED <<env_token, jobs, fetched, screen, recording, finished>>

\* Variant of ReadEvent: 'q' is matched among the review keys only.
ReadEventQuitInReview(e) ==
    /\ pc = "read"
    /\ recording => Len(trace) < MaxTrace
    /\ event' = e
    /\ prevApp' = app
    /\ prevEvent' = event
    /\ trace' = IF recording THEN Append(trace, e) ELSE trace
    /\ IF e = "q" /\ ~app.ready_for_deployment
       THEN /\ result' = "Ok"
            /\ pc' = "restore"
            /\ UNCHANGED <<app, terminal, panic_message>>
       ELSE IF DispatchPanics(app, e)
       THEN PanicEffect /\ app' = app
            /\ panic_message' = "index out of bounds or remainder by zero"
       ELSE /\ app' = Dispatch(app, e)
            /\ pc' = "draw"
            /\ UNCHANGED <<terminal, result, panic_message>>
    /\ UNCHANGED <<env_token, jobs, fetched, screen, recording, finished>>

\* event::read()? returned e; the match on it.
ReadEvent(e) ==
    /\ pc = "read"
    /\ recording => Len(trace) < MaxTrace
    /\ event' = e
    /\ prevApp' = app
    /\ prevEvent' = event
    /\ trace' = IF recording THEN Append(trace, e) ELSE trace
    /\ IF e = "q"
       THEN /\ result' = "Ok"
            /\ pc' = "restore"
            /\ UNCHANGED <<app, terminal, panic_message>>
       ELSE IF DispatchPanics(app, e)
       THEN PanicEffect /\ app' = app
            /\ panic_message' = "index out of bounds or remainder by zero"
       ELSE /\ app' = Dispatch(app, e)
            /\ pc' = "draw"
            /\ UNCHANGED <<terminal, result, panic_message>>
    /\ UNCHANGED <<env_token, jobs, fetched, screen, recording, finished>>

\* Variant of ReadFail: the error leaves main before ratatui::restore().
ReadFailSkipsRestore ==
    /\ pc = "read"
    /\ result' = "Err"
    /\ pc' = "exit"
    /\ UNCHANGED <<terminal, env_token, jobs, fetched, app, screen, event,
                   prevApp, prevEvent, recording, trace, finished, panic_message>>

\* event::read()? returned an error.
ReadFail ==
    /\ pc = "read"
    /\ result' = "Err"
    /\ pc' = "restore"
    /\ UNCHANGED <<terminal, env_token, jobs, fetched, app, screen, event,
                   prevApp, prevEvent, recording, trace, finished, panic_message>>

\* ratatui::restore(); result
Restore ==
    /\ pc = "restore"
    /\ terminal' = "original"
    /\ pc' = "exit"
    /\ UNCHANGED <<env_token, jobs, fetched, app, screen, event, prevApp,
                   prevEvent, result, recording, trace, finished, panic_message>>

Next ==
    \/ Install
    \/ TerminalInit
    \/ ReadToken
    \/ \E i \in 1..Len(ProjectIds) : StartFetch(i)
    \/ \E i \in 1..Len(ProjectIds) : \E o \in HelperOutcomes : FinishFetch(i, o)
    \/ Collect
    \/ JoinPanic
    \/ Draw
    \/ \E e \in Events : ReadEvent(e)
    \/ ReadFail
    \/ Restore

Spec == Init /\ [][Next]_vars

SpecTrace == InitTrace /\ [][Next]_vars

\* ---- properties ----

Built == app # NoApp

Cursor(a) == a.deployment.current_option
OptionCount(a) == Len(a.deployment.selected_options)
Values(a) == [i \in 1..OptionCount(a) |-> a.deployment.selected_options[i].value]
Running(a) == a.deployment.deployment_running

\* This step is one pass of the loop body that read event e and did not quit.
Dispatched(e) == pc = "read" /\ pc' = "draw" /\ event' = e

\* The last event read was e, read while the deployment view was active.
LastInDeploying(e) == Built /\ event = e /\ prevApp.ready_for_deployment

\* C1: whenever the App exists, current_option is an index into
\* selected_options: 0 <= current_option < number of options.
C1_CursorInRange ==
    Built => (0 <= Cursor(app) /\ Cursor(app) < OptionCount(app))

\* Down was pressed on the last option and the cursor wrapped to the first.
C1_Witness ==
    /\ LastInDeploying("Down")
    /\ Cursor(prevApp) = OptionCount(prevApp) - 1
    /\ Cursor(app) = 0

\* C2: once ready_for_deployment is true, no step makes it false again.
C2_PhaseOneWay ==
    [][(Built /\ app.ready_for_deployment) => app'.ready_for_deployment]_vars

\* Backspace was pressed in the deployment view, which is still shown.
C2_Witness ==
    /\ LastInDeploying("Backspace")
    /\ app.ready_for_deployment

\* C3: deployment_running is false when the App is built, becomes true only
\* by Enter read in the deployment view, never becomes false again, and
\* Enter read while it is true leaves the App unchanged.
C3_StartOnce ==
    [][ /\ (~Built /\ app' # NoApp) => ~Running(app')
        /\ (Built /\ ~Running(app) /\ Running(app'))
              => (Dispatched("Enter") /\ app.ready_for_deployment)
        /\ (Built /\ Running(app)) => Running(app')
        /\ (Built /\ Running(app) /\ Dispatched("Enter")) => app' = app ]_vars

\* Enter was pressed while the deployment was already running.
C3_Witness ==
    /\ LastInDeploying("Enter")
    /\ Running(prevApp)
    /\ Running(app)

\* C4: selected changes only in a step taken in the review view, and Left
\* or Right read in the deployment view leaves the whole App unchanged.
C4_PanelFrozen ==
    [][ /\ (Built /\ app'.selected # app.selected) => ~app.ready_for_deployment
        /\ (Built /\ app.ready_for_deployment
               /\ (Dispatched("Left") \/ Dispatched("Right"))) => app' = app ]_vars

\* Right was pressed in the deployment view with the left panel selected.
C4_Witness ==
    /\ LastInDeploying("Right")
    /\ prevApp.selected = "Left"
    /\ app.selected = "Left"

\* C5: in the review view Right selects the right panel and changes nothing
\* when it is already selected, Left selects the left panel and changes
\* nothing when it is already selected; and from the first draw the events
\* Left, Right, Right leave selected = Left, Right, Right in turn.
C5_PanelMoves ==
    /\ [][ /\ (Built /\ ~app.ready_for_deployment /\ Dispatched("Right"))
               => /\ app' = [app EXCEPT !.selected = "Right"]
                  /\ app.selected = "Right" => app' = app
           /\ (Built /\ ~app.ready_for_deployment /\ Dispatched("Left"))
               => /\ app' = [app EXCEPT !.selected = "Left"]
                  /\ app.selected = "Left" => app' = app ]_vars
    /\ [](trace = <<>> /\ Built => app.selected = "Left" /\ ~app.ready_for_deployment)
    /\ [](trace = <<"Left">> => app.selected = "Left")
    /\ [](trace = <<"Left", "Right">> => app.selected = "Right")
    /\ [](trace = <<"Left", "Right", "Right">> => app.selected = "Right")

\* The three events of the scenario have been read and the view redrawn.
C5_Witness ==
    /\ trace = <<"Left", "Right", "Right">>
    /\ app.selected = "Right"
    /\ pc = "read"

\* C6: 'c' read in the review view sets ready_for_deployment and changes
\* nothing else; 'c' read in the deployment view leaves the App unchanged.
C6_Confirm ==
    [][ /\ (Built /\ ~app.ready_for_deployment /\ Dispatched("c"))
            => app' = [app EXCEPT !.ready_for_deployment = TRUE]
        /\ (Built /\ app.ready_for_deployment /\ Dispatched("c"))
            => app' = app ]_vars

\* 'c' was pressed again in the deployment view, with the right panel
\* selected since before the first confirmation.
C6_Witness ==
    /\ LastInDeploying("c")
    /\ app.ready_for_deployment
    /\ app.selected = "Right"

\* C7: in the deployment view with L options, Up sets the cursor to
\* (cursor - 1 + L) mod L and Down sets it to (cursor + 1) mod L; Up at 0
\* yields L-1 and Down at L-1 yields 0.
C7_CursorWraps ==
    [][ /\ (Built /\ app.ready_for_deployment /\ Dispatched("Up"))
            => /\ Cursor(app') = (Cursor(app) - 1 + OptionCount(app)) % OptionCount(app)
               /\ Cursor(app) = 0 => Cursor(app') = OptionCount(app) - 1
        /\ (Built /\ app.ready_for_deployment /\ Dispatched("Down"))
            => /\ Cursor(app') = (Cursor(app) + 1) % OptionCount(app)
               /\ Cursor(app) = OptionCount(app) - 1 => Cursor(app') = 0 ]_vars

\* Up was pressed on the first option and the cursor is on the last one,
\* right after Down had been pressed.
C7_Witness ==
    /\ LastInDeploying("Up")
    /\ prevEvent = "Down"
    /\ Cursor(prevApp) = 0
    /\ Cursor(app) = OptionCount(app) - 1

\* C8: when Tab is read in the deployment view right after Tab was read in
\* the deployment view, the App (and so the value at the cursor) is again
\* what it was before the first of the two.
C8_ToggleInvolution ==
    [][ (LastInDeploying("Tab") /\ Dispatched("Tab"))
          => /\ app' = prevApp
             /\ Values(app')[Cursor(app') + 1] = Values(prevApp)[Cursor(prevApp) + 1]
             /\ Values(app)[Cursor(app) + 1] # Values(prevApp)[Cursor(prevApp) + 1] ]_vars

\* Tab was pressed twice in a row on an option that was switched off.
C8_Witness ==
    /\ LastInDeploying("Tab")
    /\ prevEvent = "Tab"
    /\ Values(prevApp)[Cursor(prevApp) + 1]
    /\ ~Values(app)[Cursor(app) + 1]

\* C9: before any event the checklist is Send Release Mail off and the two
\* deployments on, with the cursor on the first; after c, Down, Tab, Down,
\* Tab the cursor is 2 and all three options are off.
C9_DefaultScenario ==
    /\ (Built /\ trace = <<>>)
          => /\ Values(app) = <<FALSE, TRUE, TRUE>>
             /\ app.deployment.selected_options[1].label = "Send Release Mail"
             /\ Cursor(app) = 0
    /\ trace = <<"c", "Down", "Tab", "Down", "Tab">>
          => /\ Cursor(app) = 2
             /\ Values(app) = <<FALSE, FALSE, FALSE>>

\* The scenario has been played to its end.
C9_Witness ==
    /\ trace = <<"c", "Down", "Tab", "Down", "Tab">>
    /\ Cursor(app) = 2
    /\ pc = "read"

FetchFailed == \E i \in DOMAIN jobs : jobs[i] = "panicked"

\* C10: once a fetch has failed there is no App, the loop is not entered,
\* nothing is rendered and no event is read; and whenever the App exists
\* it holds exactly two changelogs, one per requested project.
C10_FetchFailureAborts ==
    /\ FetchFailed
          => /\ app = NoApp
             /\ pc \in {"fetch", "exit"}
             /\ screen = Blank
             /\ event = "none"
    /\ Built
          => /\ Len(app.changelog) = 2
             /\ \A i \in 1..2 : app.changelog[i] # NoChangelog

\* One fetch returned a changelog, the other failed, and main has ended.
C10_Witness ==
    /\ \E i, j \in DOMAIN jobs : jobs[i] = "ok" /\ jobs[j] = "panicked"
    /\ pc = "exit"
    /\ result = "Panic"

\* C11: whenever the App exists, changelog[0] is the Changelog fetched for
\* "251" and changelog[1] the one fetched for "65", in whichever order the
\* two fetches ended, so Left shows "251" and Right shows "65"; the App as
\* constructed is the same in both orders.
C11_PanelsByRequestOrder ==
    /\ [](Built => /\ app.changelog = <<Changelog("251"), Changelog("65")>>
                   /\ get_current_commit_status(app)
                        = Changelog(IF app.selected = "Left" THEN "251" ELSE "65"))
    /\ [][(~Built /\ app' # NoApp)
            => app' = AppNew(<<Changelog("251"), Changelog("65")>>)]_vars

\* The fetch for "65" ended before the fetch for "251", and the App was built.
C11_Witness ==
    /\ Built
    /\ finished = <<2, 1>>
    /\ At(app.changelog, 0).project = "251"

\* C12: when main has ended, however it ended, the terminal is in its
\* original mode.
C12_TerminalRestored ==
    pc = "exit" => terminal = "original"

\* main ended with an I/O error raised inside the loop.
C12_Witness ==
    /\ pc = "exit"
    /\ result = "Err"
    /\ Built
    /\ terminal = "original"

\* C13: reading 'q', in either view, ends run with Ok and leaves the App
\* and the screen as they were; after it the only step is the restore:
\* no event is read, nothing is dispatched and nothing is drawn.
C13_QuitEndsLoop ==
    /\ [](pc \in {"draw", "read"} => event # "q")
    /\ [][ /\ (pc = "read" /\ event' = "q")
               => /\ result' = "Ok"
                  /\ pc' = "restore"
                  /\ app' = app
                  /\ screen' = screen
           /\ event = "q"
               => /\ pc = "restore" /\ pc' = "exit"
                  /\ result' = "Ok"
                  /\ UNCHANGED <<app, screen, event, prevEvent, prevApp>> ]_vars

\* 'q' was read in the deployment view and main has ended with Ok.
C13_Witness ==
    /\ LastInDeploying("q")
    /\ app = prevApp
    /\ pc = "exit"
    /\ result = "Ok"

\* C14: when GITLAB_TOKEN is not set, no fetch is started, no App is
\* built, the loop is not entered, nothing is rendered, and main ends
\* abnormally.
C14_MissingTokenFatal ==
    ~env_token
      => /\ \A i \in DOMAIN jobs : jobs[i] = "idle"
         /\ app = NoApp
         /\ pc \in {"install", "init", "token", "exit"}
         /\ screen = Blank
         /\ event = "none"
         /\ pc = "exit" => result \in {"Err", "Panic"}

\* main panicked on the missing variable.
C14_Witness ==
    /\ ~env_token
    /\ pc = "exit"
    /\ panic_message = "GITLAB_TOKEN not set"
    /\ app = NoApp

\* The App with the other panel selected.
OtherPanel(a) ==
    [a EXCEPT !.selected = IF a.selected = "Left" THEN "Right" ELSE "Left"]

\* C15: the option values change only in a step that reads Tab in the
\* deployment view; every other event leaves them as they are; and in the
\* deployment view every event yields the same option values with the
\* other panel selected.
C15_OnlyToggleChangesOptions ==
    [][ /\ (Built /\ Values(app') # Values(app))
            => (app.ready_for_deployment /\ Dispatched("Tab"))
        /\ \A e \in Events \ {"q", "Tab"} :
              (Built /\ Dispatched(e)) => Values(app') = Values(app)
        /\ \A e \in Events \ {"q"} :
              (Built /\ app.ready_for_deployment /\ Dispatched(e))
                => Values(Dispatch(OtherPanel(app), e)) = Values(app') ]_vars

\* The space bar was pressed in the deployment view with the right panel
\* selected and a checklist that differs from the default.
C15_Witness ==
    /\ LastInDeploying("Space")
    /\ app.selected = "Right"
    /\ Values(app) = <<TRUE, TRUE, FALSE>>
    /\ Values(prevApp) = Values(app)

\* C16: in the review view the checklist is as Deployment::new made it:
\* cursor 0, values off, on, on, and the deployment not running.
C16_ReviewLeavesChecklist ==
    (Built /\ ~app.ready_for_deployment)
      => /\ Cursor(app) = 0
         /\ Values(app) = <<FALSE, TRUE, TRUE>>
         /\ ~Running(app)

\* Down and then Tab were pressed in the review view.
C16_Witness ==
    /\ Built
    /\ ~app.ready_for_deployment
    /\ prevEvent = "Down"
    /\ event = "Tab"
    /\ pc = "read"

\* C17: once the App exists nothing panics: both panels and option 0 can
\* be indexed, the cursor indexes an option, the option count is not zero,
\* cur + count - 1 does not go below zero, and no event makes the
\* dispatch abort.
C17_DispatchNeverFails ==
    Built
      => /\ result # "Panic"
         /\ panic_message = "none"
         /\ Len(app.changelog) = 2
         /\ OptionCount(app) > 0
         /\ InRange(Cursor(app), app.deployment.selected_options)
         /\ Cursor(app) + OptionCount(app) - 1 >= 0
         /\ \A e \in Events : ~DispatchPanics(app, e)
         /\ ~RenderPanics(app)

\* Tab was pressed on the last option, and the result has been drawn.
C17_Witness ==
    /\ LastInDeploying("Tab")
    /\ Cursor(prevApp) = OptionCount(prevApp) - 1
    /\ app # prevApp
    /\ pc = "read"
    /\ result = "none"

\* C18: an event is awaited only with the current App on the screen; the
\* App changes only in a step that reads an event and goes on to draw; a
\* draw changes neither the App nor the event and is followed by the read
\* (or by the end of run); and events are read only at the read.
C18_DrawThenRead ==
    /\ [](pc = "read" => (Built /\ screen = render(app)))
    /\ [][ /\ (Built /\ app' # app) => (pc = "read" /\ pc' = "draw")
           /\ (pc = "read" /\ pc' \notin {"restore", "exit"}) => pc' = "draw"
           /\ pc = "draw"
               => /\ pc' \in {"read", "restore", "exit"}
                  /\ UNCHANGED <<app, event, prevEvent>>
                  /\ pc' = "read" => screen' = render(app)
           /\ event' # event => pc = "read" ]_vars

\* Tab changed the App, the change was drawn, and the next event is awaited.
C18_Witness ==
    /\ pc = "read"
    /\ LastInDeploying("Tab")
    /\ prevEvent = "Enter"
    /\ app # prevApp
    /\ screen = render(app)

\* C19: in the deployment view Tab flips the value at the cursor and
\* changes nothing else, Up and Down change only the cursor, Enter changes
\* only deployment_running, and Up after Down or Down after Up puts the
\* cursor back.
C19_DeployFrames ==
    [][ (Built /\ app.ready_for_deployment)
          => /\ Dispatched("Tab")
                 => /\ app' = [app EXCEPT
                          !.deployment.selected_options[Cursor(app) + 1].value =
                              ~Values(app)[Cursor(app) + 1]]
                    /\ \A i \in 1..OptionCount(app) :
                          i # Cursor(app) + 1 => Values(app')[i] = Values(app)[i]
                    /\ Cursor(app') = Cursor(app)
             /\ (Dispatched("Up") \/ Dispatched("Down"))
                 => /\ app' = [app EXCEPT !.deployment.current_option = Cursor(app')]
                    /\ Cursor(app') # Cursor(app)
             /\ Dispatched("Enter")
                 => app' = [app EXCEPT !.deployment.deployment_running = TRUE]
             /\ (LastInDeploying("Up") /\ Dispatched("Down"))
                 => Cursor(app') = Cursor(prevApp)
             /\ (LastInDeploying("Down") /\ Dispatched("Up"))
                 => Cursor(app') = Cursor(prevApp) ]_vars

\* Up from the first option and then Down: the cursor is on the first again.
C19_Witness ==
    /\ LastInDeploying("Down")
    /\ prevEvent = "Up"
    /\ Cursor(prevApp) = OptionCount(prevApp) - 1
    /\ Cursor(app) = 0
    /\ Values(app) # <<FALSE, TRUE, TRUE>>

\* C20: in the deployment view with the deployment running, Up, Down and
\* Tab act on the cursor and the values as they do before the start.
C20_RunningDoesNotFreeze ==
    [][ (Built /\ app.ready_for_deployment /\ Running(app))
          => /\ Dispatched("Up")
                 => /\ Cursor(app') = (Cursor(app) + OptionCount(app) - 1) % OptionCount(app)
                    /\ Values(app') = Values(app)
             /\ Dispatched("Down")
                 => /\ Cursor(app') = (Cursor(app) + 1) % OptionCount(app)
                    /\ Values(app') = Values(app)
             /\ Dispatched("Tab")
                 => /\ Cursor(app') = Cursor(app)
                    /\ Values(app') = [Values(app) EXCEPT ![Cursor(app) + 1] = ~@]
             /\ \A e \in {"Up", "Down", "Tab"} :
                   Dispatched(e)
                     => /\ Cursor(app') = Cursor(Dispatch(
                              [app EXCEPT !.deployment.deployment_running = FALSE], e))
                        /\ Values(app') = Values(Dispatch(
                              [app EXCEPT !.deployment.deployment_running = FALSE], e)) ]_vars

\* With the deployment running, Tab switched off an option that was on
\* when Enter was pressed.
C20_Witness ==
    /\ LastInDeploying("Tab")
    /\ prevEvent = "Enter"
    /\ Running(prevApp)
    /\ Values(prevApp)[Cursor(prevApp) + 1]
    /\ ~Values(app)[Cursor(app) + 1]

====
